---- MODULE Spec2Model ----
(***************************************************************************)
(* A model of osd-dump-tools: the capture decoder of osd/__main__.py, the  *)
(* exclusion regions of osd/config.py and the rasterizer / frame file      *)
(* emitter of osd/render.py.                                               *)
(*                                                                         *)
(* Eight specifications share the variables below; each one leaves the     *)
(* variables of the other parts at their idle values:                      *)
(*   SpecDecode   read_osd_frames of osd/__main__.py (DJI capture)         *)
(*   SpecWs       the WS-telemetry decoder (described in spec.md only)     *)
(*   SpecExclude  ExcludeArea / MultiExcludedAreas of osd/config.py        *)
(*   SpecDraw     repeated draw_frame calls of osd/render.py               *)
(*   SpecEmit     render_single_frame over a reconciled sequence, twice    *)
(*   SpecPool     render_single_frame dispatched over a worker pool        *)
(*   SpecArea     ExcludeArea.__init__ on a configuration string           *)
(*   SpecObject   attribute assignment under read_only_class               *)
(***************************************************************************)
EXTENDS Integers, Sequences, FiniteSets, TLC

VARIABLES
    \* ---- decoder (read_osd_frames) ----
    magic,          \* the magic field of the file header, a tuple of characters
    capture,        \* the frame records of the file, in file order
    tail,           \* how the file ends: "eof" or "short" (truncated record)
    pos,            \* number of records of the file consumed so far
    frames,         \* the list read_osd_frames builds
    dpc,            \* decoder position: "idle","header","loop","done","exit","error"
    \* ---- exclusion regions (MultiExcludedAreas) ----
    excluded_areas, \* MultiExcludedAreas.excluded_areas
    query,          \* the last is_excluded call: <<>> or [x, y, result]
    \* ---- rasterizer and emitter ----
    cfg,            \* the Config of the run
    records,        \* the reconciled sequence handed to the renderer
    items_cache,    \* _items_cache of each worker process
    frame,          \* the frame of the last draw_frame call (<<>> before the first)
    img,            \* the image the last draw_frame call returned
    files,          \* the output directory: key -> NoFile, a file or a link
    files1,         \* the directory as the first run left it
    overwritten,    \* keys that were written while they already held a file
    run,            \* 0 idle, 1 first run of the emitter, 2 second run
    cur,            \* sequential emitter: number of records already processed
    busy,           \* worker pool: the record each worker holds (0: none)
    rendered,       \* worker pool: indices (into records) already processed
    err,            \* TRUE once a render task raised (FileExistsError)
    \* ---- constructors and attribute assignment ----
    arg,            \* the argument of the last call: a string or <<name, value>>
    raised,         \* the exception class the last call raised, or "none"
    obj             \* an instance: its class attributes, its __dict__, its class kind

vars == <<magic, capture, tail, pos, frames, dpc, excluded_areas, query,
          cfg, records, items_cache, frame, img, files, files1, overwritten,
          run, cur, busy, rendered, err, arg, raised, obj>>

decodeVars  == <<magic, capture, tail, pos, frames, dpc>>
excludeVars == <<excluded_areas, query>>
renderVars  == <<cfg, records, items_cache, frame, img, files, files1,
                 overwritten, run, cur, busy, rendered, err>>
objectVars  == <<arg, raised, obj>>

----------------------------------------------------------------------------
(* Bounds of the model *)

MaxRecords == 3     \* records in a bounded DJI capture
MaxIdx == 3         \* largest frame index in a bounded DJI capture
MaxWsRecords == 2   \* records in a WS capture
MaxTs == 35         \* largest timestamp_ms in a WS capture
MaxAreas == 2       \* regions merged into one MultiExcludedAreas
MaxCoord == 4       \* largest cell coordinate queried with is_excluded
MaxMarks == 2       \* marker glyphs in one drawn frame
MaxKey == 4         \* largest frame index of a reconciled sequence
MaxFrames == 3      \* records of a reconciled sequence
NumWorkers == 2     \* worker processes of the pool
MaxPoolFrames == 2  \* records handed to the pool

----------------------------------------------------------------------------
(* Generic helpers *)

SeqsUpTo(S, n) == UNION {[1..k -> S] : k \in 0..n}

Last(s) == s[Len(s)]

----------------------------------------------------------------------------
(* Idle values: what a specification leaves the other parts at *)

IdleDecode ==
    /\ magic = <<>> /\ capture = <<>> /\ tail = "eof"
    /\ pos = 0 /\ frames = <<>> /\ dpc = "idle"

IdleExclude == excluded_areas = <<>> /\ query = <<>>

NoFile == [kind |-> "none"]

IdleRender ==
    /\ cfg = <<>> /\ records = <<>> /\ items_cache = <<>>
    /\ frame = <<>> /\ img = <<>>
    /\ files = <<>> /\ files1 = <<>> /\ overwritten = {}
    /\ run = 0 /\ cur = 0 /\ busy = <<>> /\ rendered = {} /\ err = FALSE

IdleObject == arg = <<>> /\ raised = "none" /\ obj = <<>>

----------------------------------------------------------------------------
(* osd/__main__.py: read_osd_frames (the DJI decoder)                      *)

\* file_header_struct "<7sH4B2HB": the first field is the 7-byte magic
MSPOSD == <<"M", "S", "P", "O", "S", "D", "0">>

Magics ==
    { MSPOSD,
      <<"M", "S", "P", "O", "S", "D", "1">>,
      <<"M", "S", "P", "O", "X", "X", "X">>,
      <<"I", "N", "A", "V", "0", "0", "0">>,
      <<"B", "T", "F", "L", "0", "0", "0">>,
      <<"A", "R", "D", "U", "0", "0", "0">>,
      <<"J", "U", "N", "K", "0", "0", "0">> }

\* the tile codes of a record: frame_size little-endian 16-bit codes
Payloads == { <<48>>, <<3, 48>> }

\* the dataclass Frame(idx, size, data) of osd/__main__.py
MainFrame(frame_idx, frame_size, frame_data) ==
    [idx |-> frame_idx, size |-> frame_size, data |-> frame_data]

Rec(i, d) == [idx |-> i, data |-> d]

\* the capture of the spec's scenario: indices [0,0,1,2,2,2,5]
ScenarioCapture ==
    << Rec(0, <<48>>), Rec(0, <<3, 48>>), Rec(1, <<48>>), Rec(2, <<48>>),
       Rec(2, <<3, 48>>), Rec(2, <<48>>), Rec(5, <<48>>) >>

\* 22 records with falling indices, then the first increase at offset 22
GarbageLen == 22
LongGarbageCapture ==
    [k \in 1..(GarbageLen + 1) |->
        IF k <= GarbageLen THEN Rec(GarbageLen + 10 - k, <<48>>)
        ELSE Rec(GarbageLen + 10, <<48>>)]

Captures ==
    SeqsUpTo({Rec(i, d) : i \in 0..MaxIdx, d \in Payloads}, MaxRecords)
        \cup {ScenarioCapture, LongGarbageCapture}

InitDecode ==
    /\ magic \in Magics
    /\ capture \in Captures
    /\ tail \in {"eof", "short"}
    /\ pos = 0 /\ frames = <<>> /\ dpc = "header"
    /\ IdleExclude /\ IdleRender /\ IdleObject

\* lines 290-295: the header is unpacked and its magic compared
HeaderInvalid ==
    /\ dpc = "header"
    /\ magic # MSPOSD
    /\ dpc' = "exit"
    /\ UNCHANGED <<magic, capture, tail, pos, frames>>
    /\ UNCHANGED excludeVars /\ UNCHANGED renderVars /\ UNCHANGED objectVars

HeaderValid ==
    /\ dpc = "header"
    /\ magic = MSPOSD
    /\ dpc' = "loop"
    /\ UNCHANGED <<magic, capture, tail, pos, frames>>
    /\ UNCHANGED excludeVars /\ UNCHANGED renderVars /\ UNCHANGED objectVars

\* lines 308-319: one record is read and appended, whatever its index
ReadFrame ==
    /\ dpc = "loop"
    /\ pos < Len(capture)
    /\ LET r == capture[pos + 1]
       IN  frames' = Append(frames, MainFrame(r.idx, Len(r.data), r.data))
    /\ pos' = pos + 1
    /\ UNCHANGED <<magic, capture, tail, dpc>>
    /\ UNCHANGED excludeVars /\ UNCHANGED renderVars /\ UNCHANGED objectVars

\* lines 309-310: an empty read ends the loop; line 321 returns frames
ReadEof ==
    /\ dpc = "loop"
    /\ pos = Len(capture)
    /\ tail = "eof"
    /\ dpc' = "done"
    /\ UNCHANGED <<magic, capture, tail, pos, frames>>
    /\ UNCHANGED excludeVars /\ UNCHANGED renderVars /\ UNCHANGED objectVars

\* lines 312, 317: struct.unpack raises on a short read
ReadShort ==
    /\ dpc = "loop"
    /\ pos = Len(capture)
    /\ tail = "short"
    /\ dpc' = "error"
    /\ UNCHANGED <<magic, capture, tail, pos, frames>>
    /\ UNCHANGED excludeVars /\ UNCHANGED renderVars /\ UNCHANGED objectVars

NextDecode == HeaderInvalid \/ HeaderValid \/ ReadFrame \/ ReadEof \/ ReadShort

SpecDecode == InitDecode /\ [][NextDecode]_vars

\* osd/__main__.py line 368-370: the index the gap fill of record i runs up to
next_frame_idx(fs, i) == fs[i + 1].idx

----------------------------------------------------------------------------
(* osd/const.py, osd/frame.py *)

OSD_TYPE_DJI == 1
OSD_TYPE_WS == 2
FW_UNKNOWN == 0
FW_INAV == 1
FW_BETAFL == 2
FW_ARDU == 3

\* the dataclass Frame(idx, next_idx, size, data) of osd/frame.py
Frame(frame_idx, frame_next_idx, frame_size, frame_data) ==
    [idx |-> frame_idx, next_idx |-> frame_next_idx,
     size |-> frame_size, data |-> frame_data]

\* Tile codes of a frame are kept sparsely: a function from the offsets into
\* frame.data that hold something else than the filler glyph to their codes.
FILLER == 48

DataAt(data, k) == IF k \in DOMAIN data THEN data[k] ELSE FILLER

----------------------------------------------------------------------------
(* The WS-telemetry decoder and the linking pass (spec.md 4.3, 4.4)        *)

WS_VIDEO_FPS == 60
WS_TILE_COUNT == 1060

WsIndexCeil(timestamp_ms) == (timestamp_ms * WS_VIDEO_FPS + 999) \div 1000

\* index = floor(timestamp_ms / frame_interval_ms), frame_interval_ms = 1000/60
WsIndex(timestamp_ms) == (timestamp_ms * WS_VIDEO_FPS) \div 1000

WsPayloads == { [k \in {0} |-> 3], [k \in {0} |-> 118] }

WsRec(t, d) == [ts |-> t, data |-> d]

\* the linking pass: next_index of each record is the index of the following one
LinkFrames(fs) ==
    [k \in 1..Len(fs) |->
        IF k < Len(fs) THEN [fs[k] EXCEPT !.next_idx = fs[k + 1].idx] ELSE fs[k]]

InitWs ==
    /\ magic = <<"I", "N", "A", "V">>
    /\ capture \in SeqsUpTo({WsRec(t, d) : t \in 0..MaxTs, d \in WsPayloads},
                            MaxWsRecords)
    /\ tail = "eof"
    /\ pos = 0 /\ frames = <<>> /\ dpc = "loop"
    /\ IdleExclude /\ IdleRender /\ IdleObject

\* one fixed-size record: a duplicate index is discarded, the earlier one kept
WsReadFrame ==
    /\ dpc = "loop"
    /\ pos < Len(capture)
    /\ LET r == capture[pos + 1]
           frame_idx == WsIndex(r.ts)
       IN  frames' = IF frames # <<>> /\ Last(frames).idx = frame_idx
                     THEN frames
                     ELSE Append(frames, Frame(frame_idx, 0, WS_TILE_COUNT, r.data))
    /\ pos' = pos + 1
    /\ UNCHANGED <<magic, capture, tail, dpc>>
    /\ UNCHANGED excludeVars /\ UNCHANGED renderVars /\ UNCHANGED objectVars

\* end of file: the linking pass runs over the deduplicated list
WsEof ==
    /\ dpc = "loop"
    /\ pos = Len(capture)
    /\ frames' = LinkFrames(frames)
    /\ dpc' = "done"
    /\ UNCHANGED <<magic, capture, tail, pos>>
    /\ UNCHANGED excludeVars /\ UNCHANGED renderVars /\ UNCHANGED objectVars

NextWs == WsReadFrame \/ WsEof

SpecWs == InitWs /\ [][NextWs]_vars

----------------------------------------------------------------------------
(* osd/config.py: ExcludeArea, MultiExcludedAreas                          *)

ExcludeArea(nx1, ny1, nx2, ny2) == [x1 |-> nx1, y1 |-> ny1, x2 |-> nx2, y2 |-> ny2]

\* ExcludeArea() without a string
EmptyArea == ExcludeArea(-1, -1, -1, -1)

is_excluded_closed(area, x, y) ==
    area.x1 <= x /\ x <= area.x2 /\ area.y1 <= y /\ y <= area.y2

\* ExcludeArea.is_excluded
is_excluded(area, x, y) ==
    area.x1 <= x /\ x < area.x2 /\ area.y1 <= y /\ y < area.y2

\* MultiExcludedAreas.is_excluded: the first region that excludes the cell decides
RECURSIVE multi_is_excluded(_, _, _)
multi_is_excluded(areas, x, y) ==
    IF areas = <<>> THEN FALSE
    ELSE IF is_excluded(Head(areas), x, y) THEN TRUE
    ELSE multi_is_excluded(Tail(areas), x, y)

\* MultiExcludedAreas.merge: a list is appended element by element, a single
\* ExcludeArea (not iterable: TypeError) is appended as it is
merge(areas, params) ==
    IF DOMAIN params = {"x1", "y1", "x2", "y2"}
    THEN Append(areas, params)
    ELSE areas \o params

AreaInputs ==
    {ExcludeArea(a, b, c, d) : a \in 1..2, b \in 1..2, c \in 2..3, d \in 2..3}
        \cup {EmptyArea}

InitExclude ==
    /\ excluded_areas = <<>>
    /\ query = <<>>
    /\ IdleDecode /\ IdleRender /\ IdleObject

\* Config.update_cfg / merge_cfg: regions are merged while the configuration is
\* loaded, before the first frame is drawn
MergeArea ==
    /\ query = <<>>
    /\ Len(excluded_areas) < MaxAreas
    /\ \E a \in AreaInputs : excluded_areas' = merge(excluded_areas, a)
    /\ UNCHANGED query
    /\ UNCHANGED decodeVars /\ UNCHANGED renderVars /\ UNCHANGED objectVars

MergeList ==
    /\ query = <<>>
    /\ \E l \in SeqsUpTo(AreaInputs, 2) :
        /\ Len(excluded_areas) + Len(l) <= MaxAreas
        /\ excluded_areas' = merge(excluded_areas, l)
    /\ UNCHANGED query
    /\ UNCHANGED decodeVars /\ UNCHANGED renderVars /\ UNCHANGED objectVars

\* a call of cfg.exclude_area.is_excluded(x, y)
IsExcludedCall ==
    /\ \E x \in 0..MaxCoord, y \in 0..MaxCoord :
        query' = [x |-> x, y |-> y,
                  result |-> multi_is_excluded(excluded_areas, x, y)]
    /\ UNCHANGED excluded_areas
    /\ UNCHANGED decodeVars /\ UNCHANGED renderVars /\ UNCHANGED objectVars

NextExclude == MergeArea \/ MergeList \/ IsExcludedCall

SpecExclude == InitExclude /\ [][NextExclude]_vars

----------------------------------------------------------------------------
(* osd/render.py: the rasterizer (draw_frame, hide_items)                  *)

ArduParams ==
    [LAT_CHAR_CODE |-> 167, LON_CHAR_CODE |-> 166, ALT_CHAR_CODE |-> 177,
     HOME_CHAR_CODE |-> 191, ALT_LEN |-> 4, GPS_LEN |-> 12, HOME_LEN |-> 6]

InavParams ==
    [LAT_CHAR_CODE |-> 3, LON_CHAR_CODE |-> 4, ALT_CHAR_CODE |-> 118,
     HOME_CHAR_CODE |-> 16, ALT_LEN |-> 4, GPS_LEN |-> 9, HOME_LEN |-> 5]

INTERNAL_W_H_DJI == <<60, 22>>
INTERNAL_W_H_WS == <<53, 20>>

get_display_dims(c) ==
    IF c.fakehd THEN <<60, 22>>
    ELSE IF c.hd THEN <<50, 18>>
    ELSE <<30, 15>>

None == <<>>

\* HiddenItemsCache(): every position unset
HiddenItemsCache == [gps_lat |-> None, gps_lon |-> None, alt |-> None, dist |-> None]

\* render_single_frame / render_test_frame: the code table of the firmware
Exclusions(c) == IF c.ardu THEN ArduParams ELSE InavParams

\* ord(' '), or ord('X') in a test run
masking_font_no(c) == IF c.testrun THEN 88 ELSE 32

InternalWH(osd_type) ==
    IF osd_type = OSD_TYPE_DJI THEN INTERNAL_W_H_DJI ELSE INTERNAL_W_H_WS

DisplayWH(c, osd_type) ==
    IF osd_type = OSD_TYPE_DJI THEN get_display_dims(c) ELSE INTERNAL_W_H_WS

\* char_reader: DJI data is column-major, WS data is row-major
Offset(osd_type, x, y) ==
    IF osd_type = OSD_TYPE_DJI THEN y + x * INTERNAL_W_H_DJI[2]
    ELSE x + y * INTERNAL_W_H_WS[1]

char_reader(frm, osd_type, x, y) == DataAt(frm.data, Offset(osd_type, x, y))

\* the cell <<x, y>> whose tile code char_reader takes from offset k
CellOf(osd_type, k) ==
    IF osd_type = OSD_TYPE_DJI
    THEN <<k \div INTERNAL_W_H_DJI[2], k % INTERNAL_W_H_DJI[2]>>
    ELSE <<k % INTERNAL_W_H_WS[1], k \div INTERNAL_W_H_WS[1]>>

\* the cells of the frame that hold the tile code `code`
Sighted(frm, osd_type, code) ==
    {CellOf(osd_type, k) : k \in {j \in DOMAIN frm.data : frm.data[j] = code}}

\* the scan runs over y (outer) and x (inner): the last cell visited wins
LastScanned(S, osd_type) ==
    CHOOSE p \in S : \A q \in S :
        q[2] * InternalWH(osd_type)[1] + q[1] <= p[2] * InternalWH(osd_type)[1] + p[1]

hide_items_short(cache, exclusions) ==
    (IF cache.gps_lat # None
     THEN {<<cache.gps_lat[1] + i, cache.gps_lat[2]>> : i \in 0..(exclusions.GPS_LEN - 1)}
     ELSE {})
    \cup (IF cache.gps_lon # None
     THEN {<<cache.gps_lon[1] + i, cache.gps_lon[2]>> : i \in 0..(exclusions.GPS_LEN - 1)}
     ELSE {})
    \cup (IF cache.alt # None
     THEN {<<cache.alt[1] - i, cache.alt[2]>> : i \in 0..(exclusions.ALT_LEN - 1)}
     ELSE {})
    \cup (IF cache.dist # None
     THEN {<<cache.dist[1] + i, cache.dist[2]>> : i \in 0..(exclusions.HOME_LEN - 1)}
     ELSE {})

\* hide_items: the cells the masking tile is pasted on, from the cached positions
hide_items(cache, exclusions) ==
    (IF cache.gps_lat # None
     THEN {<<cache.gps_lat[1] + i, cache.gps_lat[2]>> : i \in 0..exclusions.GPS_LEN}
     ELSE {})
    \cup (IF cache.gps_lon # None
     THEN {<<cache.gps_lon[1] + i, cache.gps_lon[2]>> : i \in 0..exclusions.GPS_LEN}
     ELSE {})
    \cup (IF cache.alt # None
     THEN {<<cache.alt[1] - i, cache.alt[2]>> : i \in 0..exclusions.ALT_LEN}
     ELSE {})
    \cup (IF cache.dist # None
     THEN {<<cache.dist[1] + i, cache.dist[2]>> : i \in 0..exclusions.HOME_LEN}
     ELSE {})

\* the cells inside the bounding boxes of the static regions
AreaCells(areas) ==
    UNION {{<<x, y>> : x \in areas[k].x1..(areas[k].x2 - 1),
                       y \in areas[k].y1..(areas[k].y2 - 1)} : k \in 1..Len(areas)}

draw_frame_forgetful(frm, c, osd_type, exclusions, cache) ==
    LET lat  == IF c.hide_gps THEN Sighted(frm, osd_type, exclusions.LAT_CHAR_CODE) ELSE {}
        lon  == IF c.hide_gps THEN Sighted(frm, osd_type, exclusions.LON_CHAR_CODE) ELSE {}
        alt  == IF c.hide_alt THEN Sighted(frm, osd_type, exclusions.ALT_CHAR_CODE) ELSE {}
        dist == IF c.hide_dist THEN Sighted(frm, osd_type, exclusions.HOME_CHAR_CODE) ELSE {}
    IN  [img |-> <<>>,
         cache |-> [gps_lat |-> IF lat # {} THEN LastScanned(lat, osd_type) ELSE None,
                    gps_lon |-> IF lon # {} THEN LastScanned(lon, osd_type) ELSE None,
                    alt     |-> IF alt # {} THEN LastScanned(alt, osd_type) ELSE None,
                    dist    |-> IF dist # {} THEN LastScanned(dist, osd_type) ELSE None]]

\* draw_frame: the image it returns and the cache it leaves.  An image is kept
\* as the function from the canvas cells whose tile is not the filler tile to
\* the code of the tile pasted there last (a paste outside the canvas is lost).
draw_frame(frm, c, osd_type, exclusions, cache) ==
    LET lat  == IF c.hide_gps THEN Sighted(frm, osd_type, exclusions.LAT_CHAR_CODE) ELSE {}
        lon  == IF c.hide_gps THEN Sighted(frm, osd_type, exclusions.LON_CHAR_CODE) ELSE {}
        alt  == IF c.hide_alt THEN Sighted(frm, osd_type, exclusions.ALT_CHAR_CODE) ELSE {}
        dist == IF c.hide_dist THEN Sighted(frm, osd_type, exclusions.HOME_CHAR_CODE) ELSE {}
        newc == [gps_lat |-> IF lat # {} THEN LastScanned(lat, osd_type) ELSE cache.gps_lat,
                 gps_lon |-> IF lon # {} THEN LastScanned(lon, osd_type) ELSE cache.gps_lon,
                 alt     |-> IF alt # {} THEN LastScanned(alt, osd_type) ELSE cache.alt,
                 dist    |-> IF dist # {} THEN LastScanned(dist, osd_type) ELSE cache.dist]
        \* line 148: the locals gps_lat, gps_lon, alt (alt is also set by a
        \* home-distance sighting, line 141)
        any  == lat # {} \/ lon # {} \/ alt # {} \/ dist # {}
        hidden == IF any THEN hide_items(newc, exclusions) ELSE {}
        disp == DisplayWH(c, osd_type)
        tile(p) == IF p \in hidden THEN masking_font_no(c)
                   ELSE IF multi_is_excluded(c.exclude_area, p[1], p[2])
                        THEN masking_font_no(c)
                        ELSE char_reader(frm, osd_type, p[1], p[2])
        cand == {CellOf(osd_type, k) : k \in DOMAIN frm.data}
                    \cup AreaCells(c.exclude_area) \cup hidden
        shown == {p \in cand : /\ 0 <= p[1] /\ p[1] < disp[1]
                               /\ 0 <= p[2] /\ p[2] < disp[2]
                               /\ tile(p) # FILLER}
    IN  [img |-> [p \in shown |-> tile(p)], cache |-> newc]

\* the tile at canvas cell p of an image
Pixel(image, p) == IF p \in DOMAIN image THEN image[p] ELSE FILLER

\* the Config of a run, with the osd_type detected for the capture
MkCfg(osd_type, fakehd, hd, ardu, hide_gps, hide_alt, hide_dist, testrun, nolinks, verbatim, exclude_area) ==
    [osd_type |-> osd_type, fakehd |-> fakehd, hd |-> hd, ardu |-> ardu,
     hide_gps |-> hide_gps, hide_alt |-> hide_alt, hide_dist |-> hide_dist,
     testrun |-> testrun, nolinks |-> nolinks, verbatim |-> verbatim,
     exclude_area |-> exclude_area]

\* offsets into frame.data at which the drawn frames carry marker glyphs
DrawOffsets == {5, 60}

MarkerCodes(exclusions) ==
    {exclusions.LAT_CHAR_CODE, exclusions.LON_CHAR_CODE,
     exclusions.ALT_CHAR_CODE, exclusions.HOME_CHAR_CODE}

\* tile codes of a frame: filler everywhere but for at most MaxMarks markers
FrameData(exclusions) ==
    UNION {[D -> MarkerCodes(exclusions)] :
              D \in {E \in SUBSET DrawOffsets : Cardinality(E) <= MaxMarks}}

DrawCfgs ==
    {MkCfg(OSD_TYPE_WS, FALSE, FALSE, a, g, h, d, FALSE, FALSE, FALSE, <<>>) :
        a \in BOOLEAN, g \in BOOLEAN, h \in BOOLEAN, d \in BOOLEAN}
    \cup {MkCfg(OSD_TYPE_DJI, f, h, FALSE, TRUE, TRUE, TRUE, FALSE, FALSE, FALSE, <<>>) :
        f \in BOOLEAN, h \in BOOLEAN}
    \cup {MkCfg(OSD_TYPE_WS, FALSE, FALSE, FALSE, TRUE, TRUE, TRUE, TRUE, FALSE, FALSE,
                <<ExcludeArea(6, 0, 9, 2)>>)}

InitDraw ==
    /\ cfg \in DrawCfgs
    /\ records = <<>>
    /\ items_cache = <<HiddenItemsCache>>
    /\ frame = <<>> /\ img = <<>>
    /\ files = <<>> /\ files1 = <<>> /\ overwritten = {}
    /\ run = 0 /\ cur = 0 /\ busy = <<>> /\ rendered = {} /\ err = FALSE
    /\ IdleDecode /\ IdleExclude /\ IdleObject

\* render_test_frame: one draw_frame call on the process-wide cache
RenderTestFrame ==
    /\ \E d \in FrameData(Exclusions(cfg)) :
        LET frm == Frame(0, 0, InternalWH(cfg.osd_type)[1] * InternalWH(cfg.osd_type)[2], d)
            r == draw_frame(frm, cfg, cfg.osd_type, Exclusions(cfg), items_cache[1])
        IN  /\ frame' = frm
            /\ img' = r.img
            /\ items_cache' = [items_cache EXCEPT ![1] = r.cache]
    /\ UNCHANGED <<cfg, records, files, files1, overwritten, run, cur, busy, rendered, err>>
    /\ UNCHANGED decodeVars /\ UNCHANGED excludeVars /\ UNCHANGED objectVars

NextDraw == RenderTestFrame

SpecDraw == InitDraw /\ [][NextDraw]_vars

----------------------------------------------------------------------------
(* osd/render.py: the frame file emitter (render_single_frame)             *)

Keys == 0..MaxKey

FileOf(image) == [kind |-> "file", img |-> image]

\* os.symlink(fname, lfname): lfname refers to the file keyed by the frame index
LinkTo(k) == [kind |-> "link", target |-> k]

EmptyDir == [k \in Keys |-> NoFile]

\* what the path keyed by k leads to, links followed
RECURSIVE Resolve(_, _, _)
Resolve(fs, k, fuel) ==
    IF fs[k].kind = "link"
    THEN IF fuel = 0 THEN NoFile ELSE Resolve(fs, fs[k].target, fuel - 1)
    ELSE fs[k]

\* Path(lfname).is_file()
is_file(fs, k) == Resolve(fs, k, MaxKey + 1).kind = "file"

\* osd_img.save(path): the file is (re)written, through a link if there is one
RECURSIVE SaveKey(_, _, _)
SaveKey(fs, k, fuel) ==
    IF fs[k].kind = "link" /\ fuel > 0 THEN SaveKey(fs, fs[k].target, fuel - 1) ELSE k

save(fs, k, image) == [fs EXCEPT ![SaveKey(fs, k, MaxKey + 1)] = FileOf(image)]

SetMin(S) == CHOOSE m \in S : \A n \in S : m <= n

gap_range_short(frm) ==
    IF frm.next_idx # 0 THEN (frm.idx + 2)..(frm.next_idx - 1) ELSE {}

gap_range_long(frm) ==
    IF frm.next_idx # 0 THEN (frm.idx + 1)..frm.next_idx ELSE {}

\* lines 178-181: range(frame.idx + 1, next_frame_idx) when next_idx is set
gap_range(frm) ==
    IF frm.next_idx # 0 THEN (frm.idx + 1)..(frm.next_idx - 1) ELSE {}

\* lines 181-190: the loop over the gap keys, in increasing order; st holds
\* the directory, the keys overwritten so far and whether os.symlink raised
RECURSIVE emit_gaps(_, _, _, _, _)
emit_gaps(st, todo, frm, image, c) ==
    IF todo = {} THEN st
    ELSE LET j == SetMin(todo)
             rest == todo \ {j}
         IN  IF is_file(st.files, j) /\ c.verbatim
             THEN emit_gaps(st, rest, frm, image, c)
             ELSE IF c.nolinks
             THEN emit_gaps([st EXCEPT !.files = save(st.files, j, image),
                                       !.overwritten =
                                           IF st.files[j] # NoFile THEN @ \cup {j} ELSE @],
                            rest, frm, image, c)
             ELSE IF st.files[j] # NoFile
             THEN [st EXCEPT !.err = TRUE]
             ELSE emit_gaps([st EXCEPT !.files = [@ EXCEPT ![j] = LinkTo(frm.idx)]],
                            rest, frm, image, c)

\* render_single_frame: draw, save under the frame's index, fill the gap
render_single_frame(fs, ow, c, osd_type, frm, cache) ==
    LET r == draw_frame(frm, c, osd_type, Exclusions(c), cache)
        st0 == [files |-> save(fs, frm.idx, r.img),
                overwritten |-> IF fs[frm.idx] # NoFile THEN ow \cup {frm.idx} ELSE ow,
                err |-> FALSE]
        st == emit_gaps(st0, {j \in gap_range(frm) : j \in Keys}, frm, r.img, c)
    IN  [files |-> st.files, overwritten |-> st.overwritten, err |-> st.err,
         img |-> r.img, cache |-> r.cache]

\* tile codes of the frames of a reconciled sequence
EmitData ==
    { <<>>,
      [k \in {5} |-> InavParams.LAT_CHAR_CODE],
      [k \in {60} |-> InavParams.ALT_CHAR_CODE] }

IdxSeqs ==
    {s \in SeqsUpTo(Keys, MaxFrames) :
        /\ s # <<>>
        /\ \A i \in 1..Len(s), j \in 1..Len(s) : i < j => s[i] < s[j]}

\* reconciled sequences: strictly increasing indices, next_idx linked
ReconciledSeqs ==
    {LinkFrames([k \in 1..Len(s) |-> Frame(s[k], 0, WS_TILE_COUNT, d[k])]) :
        s \in IdxSeqs, d \in [1..MaxFrames -> EmitData]}

EmitCfgs ==
    {MkCfg(OSD_TYPE_WS, FALSE, FALSE, FALSE, h, h, h, FALSE, n, v, <<>>) :
        h \in BOOLEAN, n \in BOOLEAN, v \in BOOLEAN}

InitEmit ==
    /\ cfg \in EmitCfgs
    /\ records \in ReconciledSeqs
    /\ items_cache = <<HiddenItemsCache>>
    /\ frame = <<>> /\ img = <<>>
    /\ files = EmptyDir /\ files1 = <<>> /\ overwritten = {}
    /\ run = 1 /\ cur = 0 /\ busy = <<>> /\ rendered = {} /\ err = FALSE
    /\ IdleDecode /\ IdleExclude /\ IdleObject

\* the single-worker loop: render_single_frame for the next record; a raised
\* exception ends the run
RenderNext ==
    /\ run \in {1, 2}
    /\ ~err
    /\ cur < Len(records)
    /\ LET r == render_single_frame(files, overwritten, cfg, cfg.osd_type,
                                    records[cur + 1], items_cache[1])
       IN  /\ files' = r.files
           /\ overwritten' = r.overwritten
           /\ err' = r.err
           /\ img' = r.img
           /\ items_cache' = [items_cache EXCEPT ![1] = r.cache]
           /\ cur' = IF r.err THEN cur ELSE cur + 1
    /\ frame' = records[cur + 1]
    /\ UNCHANGED <<cfg, records, files1, run, busy, rendered>>
    /\ UNCHANGED decodeVars /\ UNCHANGED excludeVars /\ UNCHANGED objectVars

\* the emitter is run again over the same records and directory, in the same
\* process (the cache is kept) or in a new one (the cache starts empty)
SecondRun ==
    /\ run = 1
    /\ ~err
    /\ cur = Len(records)
    /\ run' = 2
    /\ cur' = 0
    /\ files1' = files
    /\ overwritten' = {}
    /\ \E fresh \in BOOLEAN :
        items_cache' = IF fresh THEN <<HiddenItemsCache>> ELSE items_cache
    /\ UNCHANGED <<cfg, records, frame, img, files, busy, rendered, err>>
    /\ UNCHANGED decodeVars /\ UNCHANGED excludeVars /\ UNCHANGED objectVars

NextEmit == RenderNext \/ SecondRun

SpecEmit == InitEmit /\ [][NextEmit]_vars

----------------------------------------------------------------------------
(* The worker pool (spec.md 4.8): records are handed out in order, each     *)
(* worker process has its own copy of the module-level _items_cache, and    *)
(* tasks complete in any order.                                             *)

Workers == 1..NumWorkers

PoolCfgs ==
    {MkCfg(OSD_TYPE_WS, FALSE, FALSE, FALSE, TRUE, TRUE, TRUE, FALSE, n, FALSE, <<>>) :
        n \in BOOLEAN}

\* the records handed to the pool: a short reconciled sequence in which every
\* frame carries a marker glyph
PoolSeqs ==
    {r \in ReconciledSeqs :
        Len(r) <= MaxPoolFrames /\ \A k \in 1..Len(r) : r[k].data # <<>>}

InitPool ==
    /\ cfg \in PoolCfgs
    /\ records \in PoolSeqs
    /\ items_cache = [w \in Workers |-> HiddenItemsCache]
    /\ frame = <<>> /\ img = <<>>
    /\ files = EmptyDir /\ files1 = <<>> /\ overwritten = {}
    /\ run = 1 /\ cur = 0
    /\ busy = [w \in Workers |-> 0]
    /\ rendered = {}
    /\ err = FALSE
    /\ IdleDecode /\ IdleExclude /\ IdleObject

\* an idle worker takes the next record of the list
PoolTake ==
    /\ ~err
    /\ cur < Len(records)
    /\ \E w \in Workers :
        /\ busy[w] = 0
        /\ busy' = [busy EXCEPT ![w] = cur + 1]
    /\ cur' = cur + 1
    /\ UNCHANGED <<cfg, records, items_cache, frame, img, files, files1,
                   overwritten, run, rendered, err>>
    /\ UNCHANGED decodeVars /\ UNCHANGED excludeVars /\ UNCHANGED objectVars

\* a worker runs render_single_frame on the record it holds
PoolRender ==
    /\ \E w \in Workers :
        /\ busy[w] # 0
        /\ LET r == render_single_frame(files, overwritten, cfg, cfg.osd_type,
                                        records[busy[w]], items_cache[w])
           IN  /\ files' = r.files
               /\ overwritten' = r.overwritten
               /\ err' = (err \/ r.err)
               /\ img' = r.img
               /\ items_cache' = [items_cache EXCEPT ![w] = r.cache]
        /\ frame' = records[busy[w]]
        /\ rendered' = rendered \cup {busy[w]}
        /\ busy' = [busy EXCEPT ![w] = 0]
    /\ UNCHANGED <<cfg, records, files1, run, cur>>
    /\ UNCHANGED decodeVars /\ UNCHANGED excludeVars /\ UNCHANGED objectVars

NextPool == PoolTake \/ PoolRender

SpecPool == InitPool /\ [][NextPool]_vars

----------------------------------------------------------------------------
(* osd/config.py: ExcludeArea.__init__ (a region from its configuration    *)
(* string).  A string is a tuple of one-character strings.                 *)

MaxLen == 7         \* characters of a region string

Chars == {"1", "3", ",", " ", "a"}

Strings == SeqsUpTo(Chars, MaxLen)

\* s.split(','): the fields between the commas, one more than there are commas
RECURSIVE split(_)
split(s) ==
    IF \A i \in 1..Len(s) : s[i] # ","
    THEN <<s>>
    ELSE LET i == CHOOSE j \in 1..Len(s) :
                      s[j] = "," /\ \A k \in 1..(j - 1) : s[k] # ","
         IN  <<SubSeq(s, 1, i - 1)>> \o split(SubSeq(s, i + 1, Len(s)))

\* int() ignores the white space around the number
RECURSIVE strip(_)
strip(f) ==
    IF f = <<>> THEN f
    ELSE IF f[1] = " " THEN strip(Tail(f))
    ELSE IF f[Len(f)] = " " THEN strip(SubSeq(f, 1, Len(f) - 1))
    ELSE f

DigitValue(c) == IF c = "1" THEN 1 ELSE 3

\* int(f) raises ValueError unless f is a decimal number literal
int_raises(f) ==
    LET t == strip(f)
    IN  t = <<>> \/ \E i \in 1..Len(t) : t[i] \notin {"1", "3"}

RECURSIVE decimal(_)
decimal(t) ==
    IF t = <<>> THEN 0
    ELSE 10 * decimal(SubSeq(t, 1, Len(t) - 1)) + DigitValue(t[Len(t)])

int(f) == decimal(strip(f))

\* ExcludeArea(s): the exception the constructor raises ("none" if it returns)
\* and the region it builds
ExcludeArea_init(s) ==
    IF s = <<>>
    THEN [raised |-> "none", area |-> EmptyArea]
    ELSE LET nums == split(s)
         IN  IF Len(nums) # 4
             THEN [raised |-> "Exception", area |-> None]
             ELSE IF \E i \in 1..4 : int_raises(nums[i])
             THEN [raised |-> "ValueError", area |-> None]
             ELSE [raised |-> "none",
                   area |-> ExcludeArea(int(nums[1]), int(nums[2]),
                                        int(nums[3]), int(nums[4]))]

InitArea ==
    /\ arg \in Strings
    /\ raised = "none"
    /\ obj = <<>>
    /\ IdleExclude /\ IdleDecode /\ IdleRender

\* Config.update_cfg: self.exclude_area.merge(ExcludeArea(val)); an exception
\* of the constructor is not caught and nothing is merged
UpdateCfgArea ==
    /\ raised = "none" /\ excluded_areas = <<>>
    /\ LET r == ExcludeArea_init(arg)
       IN  /\ raised' = r.raised
           /\ excluded_areas' = IF r.raised = "none"
                                THEN merge(excluded_areas, r.area)
                                ELSE excluded_areas
    /\ UNCHANGED <<query, arg, obj>>
    /\ UNCHANGED decodeVars /\ UNCHANGED renderVars

NextArea == UpdateCfgArea

SpecArea == InitArea /\ [][NextArea]_vars

----------------------------------------------------------------------------
(* osd/utils/ro_cls.py: read_only_class.  A class is its attribute table   *)
(* and whether its __setattr__ is the one of NewClass; an instance adds    *)
(* its own __dict__.                                                       *)

MaxValue == 2       \* largest attribute value

AttrNames == {"a", "b"}

AttrValues == 0..MaxValue

\* class bodies such as "class A: a = 0": some of the names, with values
Classes ==
    {[attrs |-> f, ro |-> FALSE] :
        f \in UNION {[D -> AttrValues] : D \in (SUBSET AttrNames) \ {{}}}}

\* read_only_class(cls): NewClass inherits the attributes of cls and
\* overrides __setattr__
read_only_class(cls) == [attrs |-> cls.attrs, ro |-> TRUE]

\* cls(): a new instance, with an empty __dict__
Instance(cls) == [attrs |-> cls.attrs, ro |-> cls.ro, dict |-> <<>>]

NewClass_setattr_store(o, name, value) ==
    [raised |-> "none", obj |-> [o EXCEPT !.dict = (name :> value) @@ o.dict]]

\* NewClass.__setattr__: raises, whatever the name and the value
NewClass_setattr(o, name, value) == [raised |-> "AttributeError", obj |-> o]

\* the __setattr__ a class has without the decorator: the value is stored in
\* the __dict__ of the instance
object_setattr(o, name, value) ==
    [raised |-> "none", obj |-> [o EXCEPT !.dict = (name :> value) @@ o.dict]]

\* o.name = value
setattr(o, name, value) ==
    IF o.ro THEN NewClass_setattr(o, name, value) ELSE object_setattr(o, name, value)

\* o.name: the __dict__ of the instance first, then the class; <<>> stands for
\* the AttributeError of a name found in neither
getattr(o, name) ==
    IF name \in DOMAIN o.dict THEN <<o.dict[name]>>
    ELSE IF name \in DOMAIN o.attrs THEN <<o.attrs[name]>>
    ELSE <<>>

InitObject ==
    /\ \E c \in Classes : obj \in {Instance(c), Instance(read_only_class(c))}
    /\ arg = <<>>
    /\ raised = "none"
    /\ IdleDecode /\ IdleExclude /\ IdleRender

\* an assignment statement o.name = value
SetAttr ==
    /\ \E name \in AttrNames, value \in AttrValues :
        LET r == setattr(obj, name, value)
        IN  /\ arg' = <<name, value>>
            /\ raised' = r.raised
            /\ obj' = r.obj
    /\ UNCHANGED decodeVars /\ UNCHANGED excludeVars /\ UNCHANGED renderVars

NextObject == SetAttr

SpecObject == InitObject /\ [][NextObject]_vars

----------------------------------------------------------------------------
(* Claims: exclusion regions *)

InRegion(a, x, y) == a.x1 <= x /\ x < a.x2 /\ a.y1 <= y /\ y < a.y2

\* C10: a call of is_excluded(x, y) answers TRUE exactly when some merged
\* region has x1 <= x < x2 and y1 <= y < y2; with the single region
\* (1,1)-(3,3) exactly the cells (1,1), (1,2), (2,1), (2,2) are excluded.
C10_HalfOpenRegions ==
    query # <<>> =>
        /\ query.result <=>
              \E k \in 1..Len(excluded_areas) :
                  InRegion(excluded_areas[k], query.x, query.y)
        /\ excluded_areas = <<ExcludeArea(1, 1, 3, 3)>> =>
              (query.result <=>
                  <<query.x, query.y>> \in {<<1, 1>>, <<1, 2>>, <<2, 1>>, <<2, 2>>})

\* a cell on the open edge of the second of two merged regions was queried
C10_Witness ==
    /\ query # <<>>
    /\ Len(excluded_areas) = 2
    /\ excluded_areas[2] = ExcludeArea(1, 1, 3, 3)
    /\ query.x = 3 /\ query.y = 3
    /\ ~query.result

----------------------------------------------------------------------------
(* Claims: masking *)

Fields == {"gps_lat", "gps_lon", "alt", "dist"}

\* the field_length+1 cells of a field whose marker sits at cell p: to the
\* right of the marker, for the altitude to its left
FieldRun(field, p, exclusions) ==
    IF field = "alt"
    THEN {<<x, p[2]>> : x \in (p[1] - exclusions.ALT_LEN)..p[1]}
    ELSE IF field = "dist"
    THEN {<<x, p[2]>> : x \in p[1]..(p[1] + exclusions.HOME_LEN)}
    ELSE {<<x, p[2]>> : x \in p[1]..(p[1] + exclusions.GPS_LEN)}

OnCanvas(p) ==
    /\ 0 <= p[1] /\ p[1] < DisplayWH(cfg, cfg.osd_type)[1]
    /\ 0 <= p[2] /\ p[2] < DisplayWH(cfg, cfg.osd_type)[2]

RunMasked(image, field, p) ==
    \A q \in FieldRun(field, p, Exclusions(cfg)) :
        OnCanvas(q) => Pixel(image, q) = masking_font_no(cfg)

\* the marker codes of the fields the configuration hides
EnabledCodes ==
    (IF cfg.hide_gps
     THEN {Exclusions(cfg).LAT_CHAR_CODE, Exclusions(cfg).LON_CHAR_CODE} ELSE {})
    \cup (IF cfg.hide_alt THEN {Exclusions(cfg).ALT_CHAR_CODE} ELSE {})
    \cup (IF cfg.hide_dist THEN {Exclusions(cfg).HOME_CHAR_CODE} ELSE {})

HasEnabledMarker == \E k \in DOMAIN frame.data : frame.data[k] \in EnabledCodes

\* what the cell shows when nothing is pasted from the cache
BaseTile(p) ==
    IF multi_is_excluded(cfg.exclude_area, p[1], p[2]) THEN masking_font_no(cfg)
    ELSE char_reader(frame, cfg.osd_type, p[1], p[2])

\* C3 as stated: every rasterized frame masks the run of every field sighted
\* so far, at the cell of the sighting, whether or not the frame holds a marker.
C3_MaskedOnceSighted ==
    frame # <<>> =>
        \A f \in Fields :
            items_cache[1][f] # None => RunMasked(img, f, items_cache[1][f])

\* C3 as amended: a rasterized frame that holds at least one marker glyph of a
\* hidden field masks the run of every field sighted so far at the cell where
\* the field was sighted last; a frame without any such glyph is drawn
\* unmasked by the cache.
C3_MaskedWhenMarkerDrawn ==
    frame # <<>> =>
        \A f \in Fields :
            items_cache[1][f] # None =>
                IF HasEnabledMarker
                THEN RunMasked(img, f, items_cache[1][f])
                ELSE \A q \in FieldRun(f, items_cache[1][f], Exclusions(cfg)) :
                        OnCanvas(q) => Pixel(img, q) = BaseTile(q)

\* a frame that holds an altitude marker but no latitude marker masked the
\* latitude run at the cell an earlier frame had sighted
C3_Witness ==
    /\ frame # <<>>
    /\ items_cache[1].gps_lat # None
    /\ \A k \in DOMAIN frame.data : frame.data[k] = Exclusions(cfg).ALT_CHAR_CODE
    /\ HasEnabledMarker
    /\ OnCanvas(items_cache[1].gps_lat)
    /\ BaseTile(items_cache[1].gps_lat) # masking_font_no(cfg)
    /\ Pixel(img, items_cache[1].gps_lat) = masking_font_no(cfg)

----------------------------------------------------------------------------
(* Claims: the frame file emitter *)

\* the image a reader of the file keyed by k gets
Content(fs, k) == Resolve(fs, k, MaxKey + 1)

FirstIdx == records[1].idx
LastIdx == records[Len(records)].idx

\* C2 as stated: a second run of the emitter over the same records and
\* directory succeeds, overwrites no existing file and leaves every key with
\* the content the first run gave it.
C2_SecondRunIdempotent ==
    run = 2 =>
        /\ ~err
        /\ overwritten = {}
        /\ cur = Len(records) => \A k \in Keys : Content(files, k) = Content(files1, k)

\* C4: the first run never fails, and once every record is processed exactly
\* the keys from the first to the last index hold an image, each gap key
\* between a record's index and its next_idx holding the image of the file
\* keyed by that index.
C4_DenseOutput ==
    run = 1 =>
        /\ ~err
        /\ cur = Len(records) =>
              /\ \A k \in Keys : is_file(files, k) <=> (FirstIdx <= k /\ k <= LastIdx)
              /\ \A k \in Keys : files[k] # NoFile => is_file(files, k)
              /\ \A i \in 1..Len(records) : \A j \in Keys :
                    (records[i].idx < j /\ j < records[i].next_idx) =>
                        Content(files, j) = Content(files, records[i].idx)

\* three records were emitted with links, the first one held for three frames
C4_Witness ==
    /\ run = 1
    /\ cur = Len(records)
    /\ Len(records) = 3
    /\ records[1].next_idx >= records[1].idx + 3
    /\ ~cfg.nolinks
    /\ files[records[1].idx + 2] = LinkTo(records[1].idx)
    /\ Content(files, records[1].idx + 2) # Content(files, records[2].idx)

----------------------------------------------------------------------------
(* Claims: the worker pool *)

\* the cache a single worker holds after drawing records 1..n in order
RECURSIVE SeqCache(_)
SeqCache(n) ==
    IF n = 0 THEN HiddenItemsCache
    ELSE draw_frame(records[n], cfg, cfg.osd_type, Exclusions(cfg), SeqCache(n - 1)).cache

\* the image the sequential single-worker run writes for record i
SeqImage(i) ==
    draw_frame(records[i], cfg, cfg.osd_type, Exclusions(cfg), SeqCache(i - 1)).img

\* C5: whatever the interleaving of the workers, the image written under a
\* record's index is the image the sequential single-worker run writes there.
C5_OrderIrrelevant ==
    \A i \in rendered :
        Content(files, records[i].idx) = FileOf(SeqImage(i))

----------------------------------------------------------------------------
(* Claims: the decoder *)

IdxOf(s) == [k \in 1..Len(s) |-> s[k].idx]

\* what the decoded list holds of the file's records: index and tile codes
Decoded == [k \in 1..Len(frames) |-> Rec(frames[k].idx, frames[k].data)]

\* the list a decoder that discards adjacent duplicates yields
RECURSIVE DedupAdjacent(_)
DedupAdjacent(s) ==
    IF Len(s) <= 1 THEN s
    ELSE LET d == DedupAdjacent(SubSeq(s, 1, Len(s) - 1))
         IN  IF Last(d).idx = Last(s).idx THEN d ELSE Append(d, Last(s))

IncreasePositions(s) == {p \in 2..Len(s) : s[p].idx > s[p - 1].idx}

FirstIncrease(s) ==
    CHOOSE p \in IncreasePositions(s) : \A q \in IncreasePositions(s) : p <= q

Prefix4(m) == SubSeq(m, 1, 4)

FormatError == <<-1, -1>>

\* what the run treats the capture as
Detected ==
    IF dpc = "exit" THEN FormatError ELSE <<OSD_TYPE_DJI, FW_UNKNOWN>>

ClaimedFormat(p) ==
    IF p = <<"M", "S", "P", "O">> THEN <<OSD_TYPE_DJI, FW_UNKNOWN>>
    ELSE IF p = <<"I", "N", "A", "V">> THEN <<OSD_TYPE_WS, FW_INAV>>
    ELSE IF p = <<"B", "T", "F", "L">> THEN <<OSD_TYPE_WS, FW_BETAFL>>
    ELSE IF p = <<"A", "R", "D", "U">> THEN <<OSD_TYPE_WS, FW_ARDU>>
    ELSE FormatError

\* C1: once the capture is decoded, the record list has strictly increasing
\* (hence pairwise distinct) indices, and the next index of every record but
\* the last is the index of the record that follows it.
C1_StrictlyIncreasingLinked ==
    dpc = "done" =>
        /\ \A i \in 1..Len(frames), j \in 1..Len(frames) :
              i < j => frames[i].idx < frames[j].idx
        /\ \A i \in 1..(Len(frames) - 1) :
              next_frame_idx(frames, i) = frames[i + 1].idx

\* C6: the 4-byte prefix decides the format: MSPO is DJI/Unknown, INAV, BTFL
\* and ARDU are WS with their firmware, and every other prefix is a
\* FormatError that stops the run before any record is decoded.
C6_FormatDetection ==
    dpc # "header" =>
        /\ Detected = ClaimedFormat(Prefix4(magic))
        /\ Detected = FormatError => (frames = <<>> /\ pos = 0)

\* C7: the decoded list is the file's records with every record dropped whose
\* index equals that of the record right before it (the earlier record and its
\* tile codes are kept); no two adjacent decoded records share an index.
C7_DuplicatesDiscarded ==
    dpc = "done" =>
        /\ Decoded = DedupAdjacent(capture)
        /\ \A i \in 1..(Len(frames) - 1) : frames[i].idx # frames[i + 1].idx
        /\ IdxOf(capture) = <<0, 0, 1, 2, 2, 2, 5>> => IdxOf(frames) = <<0, 1, 2, 5>>

\* C8: a decoded DJI list starts at the first position whose index is greater
\* than its predecessor's, everything from there on is kept, and no list is
\* produced when that position lies beyond offset 20.
C8_LeadingGarbageTrimmed ==
    LET d == DedupAdjacent(capture)
    IN  (dpc = "done" /\ IncreasePositions(d) # {}) =>
            /\ FirstIncrease(d) - 1 <= 20
            /\ Decoded = SubSeq(d, FirstIncrease(d), Len(d))

----------------------------------------------------------------------------
(* Claims: the WS decoder *)

TsOf(s) == [k \in 1..Len(s) |-> s[k].ts]

\* timestamps t and u lie in the same frame interval [k*1000/60, (k+1)*1000/60)
SameInterval(t, u) ==
    \E k \in 0..MaxTs :
        /\ k * 1000 <= t * 60 /\ t * 60 < (k + 1) * 1000
        /\ k * 1000 <= u * 60 /\ u * 60 < (k + 1) * 1000

\* C9 as stated: records at 16 ms and 17 ms both get index 1 and the second
\* one is discarded.
C9_Ws16And17Collide ==
    (dpc = "done" /\ TsOf(capture) = <<16, 17>>) => IdxOf(frames) = <<1>>

\* C9 as amended: 16 ms is index 0 and 17 ms is index 1, so both records are
\* kept; of two consecutive records the second is discarded exactly when both
\* timestamps lie in the same 1000/60 ms interval, as 17 ms and 18 ms do
\* (both index 1), and the record kept is the earlier one.
C9_WsSameIntervalDiscarded ==
    dpc = "done" =>
        /\ TsOf(capture) = <<16, 17>> => IdxOf(frames) = <<0, 1>>
        /\ TsOf(capture) = <<17, 18>> => IdxOf(frames) = <<1>>
        /\ Len(capture) = 2 =>
              /\ Len(frames) = 1 <=> SameInterval(capture[1].ts, capture[2].ts)
              /\ frames[1].data = capture[1].data

\* the records at 17 ms and 18 ms were decoded and one record is left
C9_Witness ==
    /\ dpc = "done"
    /\ TsOf(capture) = <<17, 18>>
    /\ capture[1].data # capture[2].data
    /\ Len(frames) = 1

----------------------------------------------------------------------------
(* Claims: the ExcludeArea constructor *)

\* the constructor has been called on arg
Constructed == raised # "none" \/ excluded_areas # <<>>

\* f is a number: digits only, blanks around them aside
IsInteger(f) ==
    \E a \in 1..Len(f) : \E b \in a..Len(f) :
        \A i \in 1..Len(f) :
            IF a <= i /\ i <= b THEN f[i] \in {"1", "3"} ELSE f[i] = " "

\* s is exactly four comma-separated integers
FourIntegers(s) ==
    /\ Cardinality({i \in 1..Len(s) : s[i] = ","}) = 3
    /\ \A k \in 1..Len(split(s)) : IsInteger(split(s)[k])

\* C11: constructing an ExcludeArea from a non-empty string that is not
\* exactly four comma-separated integers (too few or too many fields, or a
\* field that is not a number) raises ValueError and yields no region.
C11_BadStringRaisesValueError ==
    (Constructed /\ arg # <<>> /\ ~FourIntegers(arg)) =>
        (raised = "ValueError" /\ excluded_areas = <<>>)

\* the parts of C11 the constructor does keep: a bad string always raises
\* and yields no region, and four fields with a bad number raise ValueError
C11_BadStringRaises ==
    (Constructed /\ arg # <<>> /\ ~FourIntegers(arg)) =>
        /\ raised \in {"Exception", "ValueError"}
        /\ excluded_areas = <<>>
        /\ Len(split(arg)) = 4 => raised = "ValueError"

----------------------------------------------------------------------------
(* Claims: read_only_class *)

\* C12: every assignment to an attribute of an instance of a class wrapped
\* by read_only_class raises AttributeError, creates no attribute on the
\* instance, and every attribute still reads as the value declared on the class.
C12_AssignRaisesAttributeError ==
    (obj # <<>> /\ obj.ro /\ arg # <<>>) =>
        /\ raised = "AttributeError"
        /\ obj.dict = <<>>
        /\ \A n \in AttrNames :
              getattr(obj, n) = IF n \in DOMAIN obj.attrs THEN <<obj.attrs[n]>> ELSE <<>>

\* the test case: class A declares a = 0 and a.a = 1 was attempted
C12_Witness ==
    /\ obj # <<>> /\ obj.ro
    /\ "a" \in DOMAIN obj.attrs /\ obj.attrs["a"] = 0
    /\ arg = <<"a", 1>>
    /\ raised = "AttributeError"
    /\ getattr(obj, "a") = <<0>>

----------------------------------------------------------------------------
(* Claims: the file keys of the worker pool *)

\* the keys the claim gives to a record: its index and the gap up to next_idx
KeySet(r) == {r.idx} \cup {j \in Keys : r.idx < j /\ j < r.next_idx}

\* C13: the key sets of two distinct records of a reconciled sequence are
\* disjoint, and under every interleaving of the workers the keys a task has
\* written are those of its record's key set, so no key is written twice: no
\* write ever lands on a key that already holds a file and no link creation
\* finds its key taken.
C13_DisjointKeySets ==
    /\ \A i \in 1..Len(records) : \A j \in 1..Len(records) :
          i # j => KeySet(records[i]) \cap KeySet(records[j]) = {}
    /\ overwritten = {}
    /\ ~err
    /\ \A i \in rendered : \A k \in KeySet(records[i]) : files[k] # NoFile
    /\ \A k \in Keys :
          files[k] # NoFile => \E i \in rendered : k \in KeySet(records[i])

\* the second record was emitted while a worker still holds the first one,
\* whose index file and gap files are not written yet
C13_Witness ==
    /\ Len(records) = 2
    /\ rendered = {2}
    /\ \E w \in Workers : busy[w] = 1
    /\ records[1].next_idx > records[1].idx + 1
    /\ files[records[1].idx] = NoFile
    /\ files[records[1].idx + 1] = NoFile
    /\ files[records[2].idx] # NoFile

----------------------------------------------------------------------------
(* Claims: the telemetry-position cache *)

\* the marker glyph of a field in the code table of the run
MarkerOf(f) ==
    IF f = "gps_lat" THEN Exclusions(cfg).LAT_CHAR_CODE
    ELSE IF f = "gps_lon" THEN Exclusions(cfg).LON_CHAR_CODE
    ELSE IF f = "alt" THEN Exclusions(cfg).ALT_CHAR_CODE
    ELSE Exclusions(cfg).HOME_CHAR_CODE

\* one step of the run: no entry of the cache goes back to unset, and an
\* entry that changes becomes a cell at which the frame just drawn holds the
\* marker glyph of that field
CacheStep ==
    \A f \in Fields :
        /\ items_cache[1][f] # None => items_cache'[1][f] # None
        /\ items_cache'[1][f] # items_cache[1][f] =>
              items_cache'[1][f] \in Sighted(frame', cfg.osd_type, MarkerOf(f))

\* C14: across the draw_frame calls of a run the cache only accumulates: an
\* entry that is set is never reset to unset, and an entry changes only in a
\* call whose frame holds the marker glyph of its field, to the cell of that
\* sighting.
C14_CacheOnlyAccumulates == [][CacheStep]_vars

\* the latitude entry outlived a frame without latitude marker, in which an
\* altitude marker was sighted and cached
C14_Witness ==
    /\ frame # <<>>
    /\ items_cache[1].gps_lat # None
    /\ Sighted(frame, cfg.osd_type, MarkerOf("gps_lat")) = {}
    /\ Sighted(frame, cfg.osd_type, MarkerOf("alt")) # {}
    /\ items_cache[1].alt \in Sighted(frame, cfg.osd_type, MarkerOf("alt"))

====
